---- MODULE Spec2Model ----
(***************************************************************************)
(* prod-health-guardian: the hardware collectors (CPU, memory, GPU), the   *)
(* metrics coordinator (MetricsCollector) and its Prometheus registry.     *)
(*                                                                         *)
(* The specifications share the variables:                                 *)
(*   SpecGPU      the life of one GPUCollector against the NVML driver     *)
(*   SpecReaders  CPUCollector.collect and MemoryCollector.collect         *)
(*   Spec         MetricsCollector: collection, registry update, render,   *)
(*                and concurrent export calls on one event loop            *)
(*   SpecStartup  package import, construction, get_collector              *)
(*   SpecAPI      the request handlers of api/main.py                      *)
(*   SpecModels   construction of the models of models/metrics.py          *)
(* Numbers are integers; every float of the program that the model uses is *)
(* integer valued (65.0 is 65).                                            *)
(***************************************************************************)
EXTENDS Integers, Sequences, FiniteSets, TLC

VARIABLES
    nvml,       \* the NVML driver library as the process sees it
    gpu,        \* the GPUCollector object: has_nvidia, device_count
    gpu_call,   \* the last GPUCollector.collect_metrics call: inputs, outcome
    dels,       \* number of GPUCollector.__del__ invocations so far
    os_cpu,     \* what psutil answered to the last CPUCollector.collect
    cpu_call,   \* outcome of the last CPUCollector.collect
    os_mem,     \* what psutil answered to the last MemoryCollector.collect
    mem_call,   \* outcome of the last MemoryCollector.collect
    registry,   \* the process-wide Prometheus registry (instrument values)
    task,       \* the export calls in flight on the event loop
    last_update,\* argument of the most recent update_prometheus_metrics call
    last_render,\* result of the most recent get_prometheus_metrics call
    proc,       \* the process: package import, MetricsCollector objects made
    http,       \* the last HTTP request served and its response
    model_call  \* the last construction of a metrics model: data, outcome

vars == <<nvml, gpu, gpu_call, dels, os_cpu, cpu_call, os_mem, mem_call,
          registry, task, last_update, last_render, proc, http,
          model_call>>

gpu_vars == <<nvml, gpu, gpu_call, dels>>
reader_vars == <<os_cpu, cpu_call, os_mem, mem_call>>
coord_vars == <<registry, task, last_update, last_render>>

\* ------------------------------------------------------------------ bounds
MaxDevices == 2     \* most devices the driver reports
MaxTeardowns == 2   \* most __del__ invocations on one collector
NumOSAnswers == 3   \* distinct answers the OS library can give to a read
NumSnapshots == 2   \* distinct SystemMetrics values handed to an update
MaxConstructions == 2 \* most MetricsCollector() calls in one process
MaxGetCalls == 2    \* most get_collector() calls in one process

\* ---------------------------------------------------------- the NVML driver
\* What the driver answers for device i when the read succeeds.  The values
\* differ from device to device, so a record tells which device it describes.
DriverName(i) == IF i % 2 = 0 THEN "GPU-A" ELSE "GPU-B"
DriverTemperature(i) == 60 + i
DriverPowerMilliwatts(i) == 200000 + 1000 * i
DriverMemoryTotal(i) == 8000 + i
DriverMemoryUsed(i) == 3000 + i
DriverMemoryFree(i) == 5000 + i
DriverUtilizationGpu(i) == 80 + i
DriverUtilizationMemory(i) == 40 + i
DriverFanSpeed(i) == 70 + i

\* The read of one device that raises pynvml.NVMLError in a collection
\* ("none": every read but possibly the fan read succeeds).
DeviceFaults ==
    {"none", "handle", "name", "temperature", "power", "memory", "utilization"}

\* The reads made inside the try block of collect_metrics, lines 82-96.
TryBlockReads == {"name", "temperature", "power", "memory", "utilization"}

\* ------------------------------------------------------------ GPUCollector
\* Variant of __init__ whose except clause does not clear has_nvidia after
\* nvmlInit has succeeded.
GPUCollectorInit_KeepsFlag(lib, init_ok, count_ok, n) ==
    IF ~lib THEN [has_nvidia |-> FALSE, device_count |-> 0]
    ELSE IF ~init_ok THEN [has_nvidia |-> FALSE, device_count |-> 0]
    ELSE IF ~count_ok THEN [has_nvidia |-> TRUE, device_count |-> 0]
    ELSE [has_nvidia |-> TRUE, device_count |-> n]

\* GPUCollector.__init__: lib is HAS_NVIDIA (pynvml imported), init_ok and
\* count_ok say whether nvmlInit and nvmlDeviceGetCount return or raise
\* NVMLError, n is the count the driver would report.
GPUCollectorInit(lib, init_ok, count_ok, n) ==
    IF ~lib THEN [has_nvidia |-> FALSE, device_count |-> 0]
    ELSE IF ~init_ok THEN [has_nvidia |-> FALSE, device_count |-> 0]
    ELSE IF ~count_ok THEN [has_nvidia |-> FALSE, device_count |-> 0]
    ELSE [has_nvidia |-> TRUE, device_count |-> n]

\* _get_device_handle: the handle of device i, or None on NVMLError.
NoHandle == -1
GetDeviceHandle(i, fault) == IF fault = "handle" THEN NoHandle ELSE i

\* The fan read with its own try/except: 0 when the read raises.
FanSpeedRead(i, fan_fault) == IF fan_fault THEN 0 ELSE DriverFanSpeed(i)

\* The device_metrics dict of lines 104-114.
DeviceMetrics(i, fan_fault) ==
    [name |-> DriverName(i),
     temperature |-> DriverTemperature(i),
     power_usage |-> DriverPowerMilliwatts(i) \div 1000,
     memory_total |-> DriverMemoryTotal(i),
     memory_used |-> DriverMemoryUsed(i),
     memory_free |-> DriverMemoryFree(i),
     utilization |-> DriverUtilizationGpu(i),
     memory_utilization |-> DriverUtilizationMemory(i),
     fan_speed |-> FanSpeedRead(i, fan_fault)]

\* Variant of the loop body without the except clause around the reads: an
\* NVMLError of a read leaves the loop.
DeviceIteration_NoExcept(i, fault, fan_fault) ==
    IF GetDeviceHandle(i, fault) = NoHandle
    THEN [raised |-> FALSE, appended |-> <<>>]
    ELSE IF fault \in TryBlockReads
         THEN [raised |-> TRUE, appended |-> <<>>]
         ELSE [raised |-> FALSE, appended |-> <<DeviceMetrics(i, fan_fault)>>]

\* Variant of the loop body whose fan read has no try/except of its own: an
\* NVMLError of the fan read is caught by the outer except clause.
DeviceIteration_FanUnguarded(i, fault, fan_fault) ==
    IF GetDeviceHandle(i, fault) = NoHandle
    THEN [raised |-> FALSE, appended |-> <<>>]
    ELSE IF fault \in TryBlockReads \/ fan_fault
         THEN [raised |-> FALSE, appended |-> <<>>]
         ELSE [raised |-> FALSE, appended |-> <<DeviceMetrics(i, FALSE)>>]

\* One iteration of the device loop, lines 77-118: what it appends to
\* metrics["devices"], and whether an exception leaves the loop.
DeviceIteration(i, fault, fan_fault) ==
    IF GetDeviceHandle(i, fault) = NoHandle
    THEN [raised |-> FALSE, appended |-> <<>>]
    ELSE IF fault \in TryBlockReads
         THEN [raised |-> FALSE, appended |-> <<>>]
         ELSE [raised |-> FALSE, appended |-> <<DeviceMetrics(i, fan_fault)>>]

\* The device loop from index i up to n - 1.
RECURSIVE DeviceLoop(_, _, _, _)
DeviceLoop(i, n, faults, fan_faults) ==
    IF i >= n THEN [raised |-> FALSE, devices |-> <<>>]
    ELSE LET it == DeviceIteration(i, faults[i], fan_faults[i])
         IN IF it.raised THEN [raised |-> TRUE, devices |-> <<>>]
            ELSE LET rest == DeviceLoop(i + 1, n, faults, fan_faults)
                 IN [raised |-> rest.raised,
                     devices |-> it.appended \o rest.devices]

\* Variant of collect_metrics without the has_nvidia test of line 69.
GPUCollectMetrics_NoGuard(g, faults, fan_faults) ==
    LET loop == DeviceLoop(0, g.device_count, faults, fan_faults)
    IN [status |-> "returned",
        device_count |-> g.device_count,
        devices |-> loop.devices]

\* GPUCollector.collect_metrics on collector g.
GPUCollectMetrics(g, faults, fan_faults) ==
    IF ~g.has_nvidia
    THEN [status |-> "returned", device_count |-> 0, devices |-> <<>>]
    ELSE LET loop == DeviceLoop(0, g.device_count, faults, fan_faults)
         IN IF loop.raised
            THEN [status |-> "raised", device_count |-> 0, devices |-> <<>>]
            ELSE [status |-> "returned",
                  device_count |-> g.device_count,
                  devices |-> loop.devices]

NoCall == [status |-> "none", device_count |-> 0, devices |-> <<>>]


\* ------------------------------------------------------- the OS (psutil)
\* The k-th answer psutil can give; the fields of one answer differ from one
\* another and from those of every other answer.
OSVirtualMemory(k) ==
    [total |-> 1000 * k + 1, available |-> 1000 * k + 2,
     used |-> 1000 * k + 3, free |-> 1000 * k + 4, percent |-> 10 * k + 5]

OSSwapMemory(k) ==
    [total |-> 2000 * k + 1, used |-> 2000 * k + 2, free |-> 2000 * k + 3,
     percent |-> 10 * k + 6, sin |-> 2000 * k + 7, sout |-> 2000 * k + 8]

OSCpuFreq(k) ==
    [current |-> 2400 + k, min |-> 2200 + k, max |-> 3200 + k]

OSCpuPercentPerCpu(k) == [i \in 1..k |-> 20 + 10 * k + i]

OSCpuStats(k) ==
    [ctx_switches |-> 100 * k + 1, interrupts |-> 100 * k + 2,
     soft_interrupts |-> 100 * k + 3, syscalls |-> 100 * k + 4]

\* Python's None, for an absent frequency.
None == -1

\* What psutil does during one CPUCollector.collect: raise (ok = FALSE) or
\* give answer k, with or without frequency information.
OSCpuAnswers ==
    {[ok |-> FALSE, k |-> 1, has_freq |-> TRUE]} \cup
    [ok : {TRUE}, k : 1..NumOSAnswers, has_freq : BOOLEAN]

\* What psutil does during one MemoryCollector.collect: virtual_memory()
\* raises or gives answer k; swap_memory() raises or gives answer k.
OSMemAnswers ==
    {[virtual_ok |-> FALSE, swap_ok |-> TRUE, k |-> 1]} \cup
    [virtual_ok : {TRUE}, swap_ok : BOOLEAN, k : 1..NumOSAnswers]

\* A call that has not been made, and the data of a call that raised.
NoData == [none |-> TRUE]
NotCalled == [status |-> "none", data |-> NoData]
Raised(e) == [status |-> "raised", data |-> [error |-> e]]
Returned(d) == [status |-> "returned", data |-> d]

\* ------------------------------------------------------------ CPUCollector
\* Variant of collect that reads cpu_freq.current without the None test.
CPUCollect_FreqUnguarded(os) ==
    IF ~os.ok THEN Raised("psutil")
    ELSE IF ~os.has_freq THEN Raised("AttributeError")
    ELSE Returned(
        [count |-> [physical |-> os.k, logical |-> 2 * os.k],
         frequency |-> OSCpuFreq(os.k),
         percent |-> [total |-> 20 + os.k,
                      per_cpu |-> OSCpuPercentPerCpu(os.k)],
         stats |-> OSCpuStats(os.k)])

\* CPUCollector.collect: the nested dict count/frequency/percent/stats; any
\* psutil error propagates.
CPUCollect(os) ==
    IF ~os.ok THEN Raised("psutil")
    ELSE Returned(
        [count |-> [physical |-> os.k, logical |-> 2 * os.k],
         frequency |->
            [current |-> IF os.has_freq THEN OSCpuFreq(os.k).current ELSE None,
             min |-> IF os.has_freq THEN OSCpuFreq(os.k).min ELSE None,
             max |-> IF os.has_freq THEN OSCpuFreq(os.k).max ELSE None],
         percent |-> [total |-> 20 + os.k,
                      per_cpu |-> OSCpuPercentPerCpu(os.k)],
         stats |-> OSCpuStats(os.k)])

\* --------------------------------------------------------- MemoryCollector
\* The swap part of the dict: the probe's answer, or zeros when it raises.
SwapMetrics(os) ==
    IF os.swap_ok
    THEN [swap_total |-> OSSwapMemory(os.k).total,
          swap_used |-> OSSwapMemory(os.k).used,
          swap_free |-> OSSwapMemory(os.k).free,
          swap_percent |-> OSSwapMemory(os.k).percent,
          swap_in |-> OSSwapMemory(os.k).sin,
          swap_out |-> OSSwapMemory(os.k).sout]
    ELSE [swap_total |-> 0, swap_used |-> 0, swap_free |-> 0,
          swap_percent |-> 0, swap_in |-> 0, swap_out |-> 0]

\* Variant of collect that reads the swap probe outside the try as well.
MemoryCollect_SwapUnguarded(os) ==
    IF ~os.virtual_ok \/ ~os.swap_ok THEN Raised("psutil")
    ELSE LET v == OSVirtualMemory(os.k)
             w == SwapMetrics(os)
         IN Returned(
            [total |-> v.total, available |-> v.available, used |-> v.used,
             free |-> v.free, percent |-> v.percent,
             swap_total |-> w.swap_total, swap_used |-> w.swap_used,
             swap_free |-> w.swap_free, swap_percent |-> w.swap_percent,
             swap_in |-> w.swap_in, swap_out |-> w.swap_out])

\* MemoryCollector.collect: virtual_memory() is read outside any try, so its
\* error propagates; the swap probe is read inside try/except Exception.
MemoryCollect(os) ==
    IF ~os.virtual_ok THEN Raised("psutil")
    ELSE LET v == OSVirtualMemory(os.k)
             w == SwapMetrics(os)
         IN Returned(
            [total |-> v.total, available |-> v.available, used |-> v.used,
             free |-> v.free, percent |-> v.percent,
             swap_total |-> w.swap_total, swap_used |-> w.swap_used,
             swap_free |-> w.swap_free, swap_percent |-> w.swap_percent,
             swap_in |-> w.swap_in, swap_out |-> w.swap_out])


\* ------------------------------------------------ models/metrics.py types
\* The required fields of the pydantic models (every field is Field(...)).
CPUMetricsFields ==
    {"physical_cores", "logical_cores", "cpu_freq_current", "cpu_freq_min",
     "cpu_freq_max", "cpu_percent", "per_cpu_percent", "ctx_switches",
     "interrupts", "soft_interrupts", "syscalls"}

MemoryMetricsFields ==
    {"total", "available", "used", "free", "percent", "swap_total",
     "swap_used", "swap_free", "swap_percent", "swap_in", "swap_out"}

GPUMetricsFields ==
    {"name", "temperature", "power_watts", "memory_total", "memory_used",
     "memory_free", "gpu_utilization", "memory_utilization", "fan_speed"}

\* Model(**data): a required field that is no key of data is a validation
\* error; keys that are no field are ignored.
ModelConstruct(fields, data) ==
    IF fields \subseteq DOMAIN data
    THEN Returned([f \in fields |-> data[f]])
    ELSE Raised("ValidationError")

\* No model constructed yet.
NoModelCall == [model |-> "none", data |-> NoData, result |-> NotCalled]

\* Values a caller can give for a percent field, for a count or byte field
\* and for a number of cores.
PercentInputs == {-1, 50, 101}
CountInputs == {-1, 7}
CoreInputs == {2, 4}

\* The dicts a caller can hand to CPUMetrics, MemoryMetrics and GPUMetrics:
\* every field is present and of its declared type.
CPUMetricsInputs ==
    {[physical_cores |-> p, logical_cores |-> l, cpu_freq_current |-> 2400,
      cpu_freq_min |-> 2200, cpu_freq_max |-> 3200, cpu_percent |-> c,
      per_cpu_percent |-> <<e>>, ctx_switches |-> n, interrupts |-> 500,
      soft_interrupts |-> 200, syscalls |-> 5000] :
        p \in CoreInputs, l \in CoreInputs, c \in PercentInputs,
        e \in PercentInputs, n \in CountInputs}

MemoryMetricsInputs ==
    {[total |-> t, available |-> 8, used |-> 7, free |-> 1, percent |-> c,
      swap_total |-> 8, swap_used |-> 1, swap_free |-> 7, swap_percent |-> w,
      swap_in |-> 100, swap_out |-> 50] :
        t \in CountInputs, c \in PercentInputs, w \in PercentInputs}

GPUMetricsInputs ==
    {[name |-> "GPU-A", temperature |-> 65, power_watts |-> 100,
      memory_total |-> 8, memory_used |-> u, memory_free |-> 4,
      gpu_utilization |-> g, memory_utilization |-> m, fan_speed |-> f] :
        u \in CountInputs, g \in PercentInputs, m \in PercentInputs,
        f \in PercentInputs}

\* The SystemMetrics values a caller can hand to update_prometheus_metrics.
\* Every field of snapshot k has its own value; the snapshots differ in the
\* number of cores and in the GPU name.
SnapshotCores(k) == IF k % 2 = 1 THEN 2 ELSE 1
SnapshotGpuName(k) == IF k % 2 = 1 THEN "GPU-A" ELSE "GPU-B"

SnapshotOf(k) ==
    [cpu |-> [physical_cores |-> 100 * k + 1, logical_cores |-> 100 * k + 2,
              cpu_freq_current |-> 100 * k + 3, cpu_freq_min |-> 100 * k + 4,
              cpu_freq_max |-> 100 * k + 5, cpu_percent |-> 100 * k + 6,
              per_cpu_percent |-> [i \in 1..SnapshotCores(k) |->
                                      100 * k + 50 + i],
              ctx_switches |-> 100 * k + 7, interrupts |-> 100 * k + 8,
              soft_interrupts |-> 100 * k + 9, syscalls |-> 100 * k + 10],
     memory |-> [total |-> 100 * k + 21, available |-> 100 * k + 22,
                 used |-> 100 * k + 23, free |-> 100 * k + 24,
                 percent |-> 100 * k + 25, swap_total |-> 100 * k + 26,
                 swap_used |-> 100 * k + 27, swap_free |-> 100 * k + 28,
                 swap_percent |-> 100 * k + 29, swap_in |-> 100 * k + 30,
                 swap_out |-> 100 * k + 31],
     gpu |-> [name |-> SnapshotGpuName(k), temperature |-> 100 * k + 41,
              power_watts |-> 100 * k + 42, memory_total |-> 100 * k + 43,
              memory_used |-> 100 * k + 44, memory_free |-> 100 * k + 45,
              gpu_utilization |-> 100 * k + 46,
              memory_utilization |-> 100 * k + 47,
              fan_speed |-> 100 * k + 48]]

\* --------------------------------------------------- the metric registry
\* _register_metrics: the gauges in declaration order, with label names.
GpuLabels == <<"gpu_id", "name">>

RegisteredMetrics ==
    << [name |-> "cpu_physical_count", labelnames |-> <<>>],
       [name |-> "cpu_logical_count", labelnames |-> <<>>],
       [name |-> "cpu_frequency_current_mhz", labelnames |-> <<>>],
       [name |-> "cpu_frequency_min_mhz", labelnames |-> <<>>],
       [name |-> "cpu_frequency_max_mhz", labelnames |-> <<>>],
       [name |-> "cpu_percent_total", labelnames |-> <<>>],
       [name |-> "cpu_percent_per_cpu", labelnames |-> <<"core">>],
       [name |-> "cpu_ctx_switches_total", labelnames |-> <<>>],
       [name |-> "cpu_interrupts_total", labelnames |-> <<>>],
       [name |-> "cpu_soft_interrupts_total", labelnames |-> <<>>],
       [name |-> "cpu_syscalls_total", labelnames |-> <<>>],
       [name |-> "memory_virtual_total_bytes", labelnames |-> <<>>],
       [name |-> "memory_virtual_available_bytes", labelnames |-> <<>>],
       [name |-> "memory_virtual_used_bytes", labelnames |-> <<>>],
       [name |-> "memory_virtual_free_bytes", labelnames |-> <<>>],
       [name |-> "memory_virtual_percent", labelnames |-> <<>>],
       [name |-> "memory_swap_total_bytes", labelnames |-> <<>>],
       [name |-> "memory_swap_used_bytes", labelnames |-> <<>>],
       [name |-> "memory_swap_free_bytes", labelnames |-> <<>>],
       [name |-> "memory_swap_percent", labelnames |-> <<>>],
       [name |-> "memory_swap_sin_total", labelnames |-> <<>>],
       [name |-> "memory_swap_sout_total", labelnames |-> <<>>],
       [name |-> "gpu_device_count", labelnames |-> <<>>],
       [name |-> "gpu_temperature_celsius", labelnames |-> GpuLabels],
       [name |-> "gpu_power_watts", labelnames |-> GpuLabels],
       [name |-> "gpu_memory_total_bytes", labelnames |-> GpuLabels],
       [name |-> "gpu_memory_used_bytes", labelnames |-> GpuLabels],
       [name |-> "gpu_memory_free_bytes", labelnames |-> GpuLabels],
       [name |-> "gpu_utilization_percent", labelnames |-> GpuLabels],
       [name |-> "gpu_memory_utilization_percent", labelnames |-> GpuLabels],
       [name |-> "gpu_fan_speed_percent", labelnames |-> GpuLabels] >>

MetricNames == {RegisteredMetrics[j].name : j \in 1..Len(RegisteredMetrics)}

\* The registry after _register_metrics: an unlabeled gauge holds its one
\* sample, 0.0; a labeled gauge has no sample until .labels() makes one.
\* The samples of a gauge are kept in creation order.
RegisterMetrics ==
    [n \in MetricNames |->
        LET m == CHOOSE m \in {RegisteredMetrics[j] :
                                  j \in 1..Len(RegisteredMetrics)} : m.name = n
        IN IF m.labelnames = <<>>
           THEN << [labels |-> <<>>, value |-> 0] >>
           ELSE <<>>]

\* The gauges metrics/prometheus.py declares at module level when the package
\* is imported: the 11 cpu_* and 11 memory_* names, with the same label names.
PrometheusModuleMetrics == [j \in 1..22 |-> RegisteredMetrics[j]]

\* The samples of a gauge right after Gauge(name, help, labelnames).
GaugeInit(decl) ==
    IF decl.labelnames = <<>>
    THEN << [labels |-> <<>>, value |-> 0] >>
    ELSE <<>>

EmptyRegistry == [n \in {} |-> <<>>]

\* Variant of the declarations in which a name already declared is declared
\* anew, replacing the gauge the registry holds.
RegisterGauges_Replaces(reg, decls) ==
    LET names == {decls[j].name : j \in 1..Len(decls)}
    IN [status |-> "returned",
        registry |->
            [n \in DOMAIN reg \cup names |->
                IF n \in names
                THEN GaugeInit(CHOOSE d \in {decls[j] : j \in 1..Len(decls)} :
                                  d.name = n)
                ELSE reg[n]]]

\* Gauge(...) for each declaration of decls in order, on the process-wide
\* registry reg.  Declaring a name the registry holds raises ValueError
\* (duplicated timeseries) and ends the sequence; the gauges declared before
\* it stay declared, the gauges the registry held are untouched.
RegisterGauges(reg, decls) ==
    LET dup == {j \in 1..Len(decls) : decls[j].name \in DOMAIN reg}
        stop == IF dup = {} THEN Len(decls) + 1
                ELSE CHOOSE j \in dup : \A i \in dup : j <= i
        added == {decls[j].name : j \in 1..(stop - 1)}
    IN [status |-> IF dup = {} THEN "returned" ELSE "raised",
        registry |->
            [n \in DOMAIN reg \cup added |->
                IF n \in DOMAIN reg THEN reg[n]
                ELSE GaugeInit(CHOOSE d \in {decls[j] : j \in 1..Len(decls)} :
                                  d.name = n)]]

\* float(value), as Gauge.set applies it, is exact on every number of the
\* model (all are integers below 2^31, floats are exact up to 2^53).
ToFloat(v) == v

\* str(i) of a small non-negative integer.
Digits == <<"0", "1", "2", "3", "4", "5", "6", "7", "8", "9">>
Str(i) == Digits[i + 1]

\* Variant of set that writes a sample only when it creates it.
GaugeSet_KeepsFirst(samples, labels, v) ==
    LET at == {j \in 1..Len(samples) : samples[j].labels = labels}
    IN IF at = {}
       THEN Append(samples, [labels |-> labels, value |-> ToFloat(v)])
       ELSE samples

\* gauge.labels(...).set(v), or gauge.set(v) with labels <<>>, on the samples
\* of one gauge: the sample with these label values is overwritten, or
\* created after the others.
GaugeSet(samples, labels, v) ==
    LET at == {j \in 1..Len(samples) : samples[j].labels = labels}
    IN IF at = {}
       THEN Append(samples, [labels |-> labels, value |-> ToFloat(v)])
       ELSE [samples EXCEPT ![CHOOSE j \in at : TRUE].value = ToFloat(v)]

Write(name, labels, v) == [name |-> name, labels |-> labels, value |-> v]

\* update_prometheus_metrics(metrics): the set calls it makes, in order.
UpdateWrites(m) ==
    << Write("cpu_physical_count", <<>>, m.cpu.physical_cores),
       Write("cpu_logical_count", <<>>, m.cpu.logical_cores),
       Write("cpu_frequency_current_mhz", <<>>, m.cpu.cpu_freq_current),
       Write("cpu_frequency_min_mhz", <<>>, m.cpu.cpu_freq_min),
       Write("cpu_frequency_max_mhz", <<>>, m.cpu.cpu_freq_max),
       Write("cpu_percent_total", <<>>, m.cpu.cpu_percent) >>
    \o [i \in 1..Len(m.cpu.per_cpu_percent) |->
          Write("cpu_percent_per_cpu", <<Str(i - 1)>>,
                m.cpu.per_cpu_percent[i])]
    \o
    << Write("cpu_ctx_switches_total", <<>>, m.cpu.ctx_switches),
       Write("cpu_interrupts_total", <<>>, m.cpu.interrupts),
       Write("cpu_soft_interrupts_total", <<>>, m.cpu.soft_interrupts),
       Write("cpu_syscalls_total", <<>>, m.cpu.syscalls),
       Write("memory_virtual_total_bytes", <<>>, m.memory.total),
       Write("memory_virtual_available_bytes", <<>>, m.memory.available),
       Write("memory_virtual_used_bytes", <<>>, m.memory.used),
       Write("memory_virtual_free_bytes", <<>>, m.memory.free),
       Write("memory_virtual_percent", <<>>, m.memory.percent),
       Write("memory_swap_total_bytes", <<>>, m.memory.swap_total),
       Write("memory_swap_used_bytes", <<>>, m.memory.swap_used),
       Write("memory_swap_free_bytes", <<>>, m.memory.swap_free),
       Write("memory_swap_percent", <<>>, m.memory.swap_percent),
       Write("memory_swap_sin_total", <<>>, m.memory.swap_in),
       Write("memory_swap_sout_total", <<>>, m.memory.swap_out),
       Write("gpu_temperature_celsius", <<"0", m.gpu.name>>,
             m.gpu.temperature),
       Write("gpu_power_watts", <<"0", m.gpu.name>>, m.gpu.power_watts),
       Write("gpu_memory_total_bytes", <<"0", m.gpu.name>>,
             m.gpu.memory_total),
       Write("gpu_memory_used_bytes", <<"0", m.gpu.name>>,
             m.gpu.memory_used),
       Write("gpu_memory_free_bytes", <<"0", m.gpu.name>>,
             m.gpu.memory_free),
       Write("gpu_utilization_percent", <<"0", m.gpu.name>>,
             m.gpu.gpu_utilization),
       Write("gpu_memory_utilization_percent", <<"0", m.gpu.name>>,
             m.gpu.memory_utilization),
       Write("gpu_fan_speed_percent", <<"0", m.gpu.name>>,
             m.gpu.fan_speed) >>

\* The set calls ws, all on one gauge, applied in order to its samples.
RECURSIVE ApplyWrites(_, _)
ApplyWrites(samples, ws) ==
    IF ws = <<>> THEN samples
    ELSE ApplyWrites(GaugeSet(samples, Head(ws).labels, Head(ws).value),
                     Tail(ws))

\* The registry after update_prometheus_metrics(m): every gauge after the
\* set calls made on it (calls on different gauges do not affect each other).
WritesOn(ws, n) == SelectSeq(ws, LAMBDA w : w.name = n)

\* Variant of the update that clears a labeled gauge before writing it.
UpdatePrometheusMetrics_ClearsLabeled(reg, m) ==
    [n \in DOMAIN reg |->
        ApplyWrites(IF \E j \in 1..Len(reg[n]) : reg[n][j].labels # <<>>
                    THEN <<>> ELSE reg[n],
                    WritesOn(UpdateWrites(m), n))]

UpdatePrometheusMetrics(reg, m) ==
    [n \in DOMAIN reg |-> ApplyWrites(reg[n], WritesOn(UpdateWrites(m), n))]

\* generate_latest(): for each gauge in declaration order its HELP line, its
\* TYPE line and one line for each sample, in creation order.
\* Variant of the rendering that shows only the first sample of a gauge.
RenderSamples_FirstOnly(reg, name) ==
    [j \in 1..(IF Len(reg[name]) > 0 THEN 1 ELSE 0) |->
        [kind |-> "sample", name |-> name,
         labels |-> reg[name][j].labels, value |-> reg[name][j].value]]

RenderSamples(reg, name) ==
    [j \in 1..Len(reg[name]) |->
        [kind |-> "sample", name |-> name,
         labels |-> reg[name][j].labels, value |-> reg[name][j].value]]

RECURSIVE RenderFrom(_, _)
RenderFrom(reg, j) ==
    IF j > Len(RegisteredMetrics) THEN <<>>
    ELSE LET n == RegisteredMetrics[j].name
         IN << [kind |-> "HELP", name |-> n, labels |-> <<>>, value |-> 0],
               [kind |-> "TYPE", name |-> n, labels |-> <<>>, value |-> 0] >>
            \o RenderSamples(reg, n) \o RenderFrom(reg, j + 1)

GenerateLatest(reg) == RenderFrom(reg, 1)

\* ------------------------------------------------------- MetricsCollector
\* The methods the class GPUCollector defines (collectors/gpu.py).
GPUCollectorMethods ==
    {"__init__", "_get_device_handle", "collect_metrics", "__del__"}

\* self.gpu_collector.<method>(): a name the class does not define raises
\* AttributeError; otherwise the call gives the collector's reading.
GPUCollectorCall(method, g) ==
    IF method \in GPUCollectorMethods
    THEN LET r == GPUCollectMetrics(g,
                    [i \in 0..(g.device_count - 1) |-> "none"],
                    [i \in 0..(g.device_count - 1) |-> FALSE])
         IN Returned([device_count |-> r.device_count,
                      devices |-> r.devices])
    ELSE Raised("AttributeError")

\* Lines 197-201 of collect_metrics: the three models are constructed in the
\* order cpu, memory, gpu; the first validation error propagates.
SystemMetricsConstruct(cpu_data, memory_data, gpu_data) ==
    LET c == ModelConstruct(CPUMetricsFields, cpu_data)
        m == ModelConstruct(MemoryMetricsFields, memory_data)
        g == ModelConstruct(GPUMetricsFields, gpu_data)
    IN IF c.status = "raised" THEN c
       ELSE IF m.status = "raised" THEN m
       ELSE IF g.status = "raised" THEN g
       ELSE Returned([cpu |-> c.data, memory |-> m.data, gpu |-> g.data])

\* The export calls (coroutines) in flight together on the event loop: two.
Tasks == {1, 2}

\* What psutil can answer to the readers while an export call runs.
ExportCpuAnswers == {a \in OSCpuAnswers : a.k = 1 /\ a.has_freq}
ExportMemAnswers == {a \in OSMemAnswers : a.k = 1}

\* No get_prometheus_metrics call since the last registry write.
NoRender == [called |-> FALSE, text |-> <<>>, prior |-> <<>>]

IdleTask ==
    [pc |-> "idle", op |-> "none", cpu_data |-> NoData,
     memory_data |-> NoData, trace |-> <<>>, result |-> NotCalled]

\* ------------------------------------------------------------ the process
\* No call made yet, and the outcome of a constructor or get_collector call.
NoOutcome == [op |-> "none", status |-> "none", value |-> 0]
Outcome(op, status, value) == [op |-> op, status |-> status, value |-> value]

\* A process that has not imported the metrics package: nothing is declared,
\* no MetricsCollector exists.  made counts the MetricsCollector objects
\* constructed, calls the MetricsCollector() calls, owner is the object whose
\* gauges the registry holds (0: none), singleton is get_collector's
\* module-level instance (0: None), got the instances get_collector has
\* returned, via_get the objects get_collector has constructed.
FreshProcess ==
    [imported |-> FALSE, owner |-> 0, made |-> 0, calls |-> 0,
     singleton |-> 0, gets |-> 0, got |-> {}, via_get |-> 0,
     last |-> NoOutcome]

\* A process in which one MetricsCollector has been constructed on a registry
\* that held none of its names.
ConstructedProcess ==
    [imported |-> TRUE, owner |-> 1, made |-> 1, calls |-> 1,
     singleton |-> 0, gets |-> 0, got |-> {}, via_get |-> 0,
     last |-> Outcome("MetricsCollector", "returned", 1)]

\* Variant of __init__ that declares the CPU and memory gauges only.
MetricsCollectorInit_NoGpu(reg, nv) ==
    LET r == RegisterGauges(reg, PrometheusModuleMetrics)
    IN [status |-> r.status, registry |-> r.registry,
        nvml |-> [nv EXCEPT !.inits = @ + (IF nv.lib THEN 1 ELSE 0)],
        gpu |-> GPUCollectorInit(nv.lib, nv.init_ok, nv.count_ok, nv.ndev)]

\* MetricsCollector.__init__, lines 27-35: the three hardware collectors are
\* constructed (GPUCollector() initializes the driver), then
\* _register_metrics declares the gauges.
MetricsCollectorInit(reg, nv) ==
    LET r == RegisterGauges(reg, RegisteredMetrics)
    IN [status |-> r.status, registry |-> r.registry,
        nvml |-> [nv EXCEPT !.inits = @ + (IF nv.lib THEN 1 ELSE 0)],
        gpu |-> GPUCollectorInit(nv.lib, nv.init_ok, nv.count_ok, nv.ndev)]

\* A MetricsCollector() call made by op in process p: the process, registry,
\* driver and GPU collector it leaves.
Construct(op, p, reg, nv) ==
    LET c == MetricsCollectorInit(reg, nv)
    IN IF c.status = "returned"
       THEN [proc |-> [p EXCEPT !.calls = @ + 1, !.made = @ + 1,
                                !.owner = p.made + 1,
                                !.last = Outcome(op, "returned", p.made + 1)],
             registry |-> c.registry, nvml |-> c.nvml, gpu |-> c.gpu,
             made |-> p.made + 1]
       ELSE [proc |-> [p EXCEPT !.calls = @ + 1,
                                !.last = Outcome(op, "raised", 0)],
             registry |-> c.registry, nvml |-> c.nvml, gpu |-> c.gpu,
             made |-> 0]

\* Variant of get_collector that constructs a coordinator on every call.
GetCollector_NoMemo(p, reg, nv, g) ==
    LET c == Construct("get_collector", p, reg, nv)
    IN [proc |-> [c.proc EXCEPT
                    !.gets = @ + 1,
                    !.singleton = IF c.made # 0 THEN c.made ELSE @,
                    !.via_get = IF c.made # 0 THEN @ + 1 ELSE @,
                    !.got = IF c.made # 0 THEN @ \cup {c.made} ELSE @],
        registry |-> c.registry, nvml |-> c.nvml, gpu |-> c.gpu]

\* get_collector(): the module-level instance is created by the first call
\* and returned by every later one.
GetCollector(p, reg, nv, g) ==
    IF p.singleton # 0
    THEN [proc |-> [p EXCEPT !.gets = @ + 1, !.got = @ \cup {p.singleton},
                             !.last = Outcome("get_collector", "returned",
                                              p.singleton)],
          registry |-> reg, nvml |-> nv, gpu |-> g]
    ELSE LET c == Construct("get_collector", p, reg, nv)
         IN [proc |-> [c.proc EXCEPT
                         !.gets = @ + 1,
                         !.singleton = IF c.made # 0 THEN c.made ELSE @,
                         !.via_get = IF c.made # 0 THEN @ + 1 ELSE @,
                         !.got = IF c.made # 0 THEN @ \cup {c.made} ELSE @],
             registry |-> c.registry, nvml |-> c.nvml, gpu |-> c.gpu]

\* No HTTP request served yet.
NoResponse ==
    [route |-> "none", status_code |-> 0, body |-> NoData, raised |-> "none"]

\* ------------------------------------------------------------------- Init
InitGPU ==
    /\ \E lib \in BOOLEAN, init_ok \in BOOLEAN, count_ok \in BOOLEAN,
          n \in 0..MaxDevices :
          \* outcomes that are never consulted are fixed
          /\ (~lib => init_ok /\ count_ok /\ n = 0)
          /\ (~init_ok => count_ok /\ n = 0)
          /\ (~count_ok => n = 0)
          /\ nvml = [lib |-> lib, init_ok |-> init_ok, count_ok |-> count_ok,
                     ndev |-> n,
                     inits |-> IF lib THEN 1 ELSE 0,
                     shutdowns |-> 0,
                     shutdown_errors |-> 0]
          /\ gpu = GPUCollectorInit(lib, init_ok, count_ok, n)
    /\ gpu_call = [self |-> gpu, faults |-> <<>>, fan_faults |-> <<>>,
                   result |-> NoCall]
    /\ dels = 0

Init ==
    /\ InitGPU
    /\ os_cpu = [ok |-> TRUE, k |-> 1, has_freq |-> TRUE]
    /\ cpu_call = NotCalled
    /\ os_mem = [virtual_ok |-> TRUE, swap_ok |-> TRUE, k |-> 1]
    /\ mem_call = NotCalled
    /\ registry = RegisterMetrics
    /\ task = [t \in Tasks |-> IdleTask]
    /\ last_update = [called |-> FALSE, metrics |-> NoData]
    /\ last_render = NoRender
    /\ proc = ConstructedProcess
    /\ http = NoResponse
    /\ model_call = NoModelCall

\* A fresh process: the driver is as the machine has it, nothing has been
\* imported or constructed.
InitStartup ==
    /\ \E lib \in BOOLEAN, init_ok \in BOOLEAN :
          /\ (~lib => init_ok)
          /\ nvml = [lib |-> lib, init_ok |-> init_ok, count_ok |-> TRUE,
                     ndev |-> IF lib /\ init_ok THEN 1 ELSE 0,
                     inits |-> 0, shutdowns |-> 0, shutdown_errors |-> 0]
    /\ gpu = [has_nvidia |-> FALSE, device_count |-> 0]
    /\ gpu_call = [self |-> gpu, faults |-> <<>>, fan_faults |-> <<>>,
                   result |-> NoCall]
    /\ dels = 0
    /\ os_cpu = [ok |-> TRUE, k |-> 1, has_freq |-> TRUE]
    /\ cpu_call = NotCalled
    /\ os_mem = [virtual_ok |-> TRUE, swap_ok |-> TRUE, k |-> 1]
    /\ mem_call = NotCalled
    /\ registry = EmptyRegistry
    /\ task = [t \in Tasks |-> IdleTask]
    /\ last_update = [called |-> FALSE, metrics |-> NoData]
    /\ last_render = NoRender
    /\ proc = FreshProcess
    /\ http = NoResponse
    /\ model_call = NoModelCall

\* ------------------------------------------------- actions: GPUCollector
\* A call of collect_metrics; the driver faults of this call are its input.
GPUCollect ==
    /\ \E faults \in [0..(gpu.device_count - 1) -> DeviceFaults],
          fan_faults \in [0..(gpu.device_count - 1) -> BOOLEAN] :
          \* the fan is read only for a device whose other reads succeed
          /\ \A i \in 0..(gpu.device_count - 1) :
                faults[i] # "none" => ~fan_faults[i]
          /\ gpu_call' = [self |-> gpu, faults |-> faults,
                          fan_faults |-> fan_faults,
                          result |-> GPUCollectMetrics(gpu, faults,
                                                       fan_faults)]
    /\ UNCHANGED <<nvml, gpu, dels>>
    /\ UNCHANGED reader_vars
    /\ UNCHANGED coord_vars
    /\ UNCHANGED <<proc, http, model_call>>

\* __del__, lines 122-130: nvmlShutdown is called when has_nvidia holds; an
\* NVMLError it raises is passed; the finally clause clears has_nvidia.
GPUDelShutdownCalls(g) == IF g.has_nvidia THEN 1 ELSE 0

\* Variant of __del__ that clears has_nvidia after the shutdown call instead
\* of in a finally clause.
GPUDelFields_NoFinally(g, shutdown_ok) ==
    IF g.has_nvidia /\ shutdown_ok THEN [g EXCEPT !.has_nvidia = FALSE] ELSE g

GPUDelFields(g, shutdown_ok) ==
    IF g.has_nvidia THEN [g EXCEPT !.has_nvidia = FALSE] ELSE g

GPUDel ==
    /\ dels < MaxTeardowns
    /\ dels' = dels + 1
    /\ \E shutdown_ok \in BOOLEAN :
          /\ nvml' = [nvml EXCEPT
                        !.shutdowns = @ + GPUDelShutdownCalls(gpu),
                        !.shutdown_errors =
                            IF gpu.has_nvidia /\ ~shutdown_ok THEN @ + 1 ELSE @]
          /\ gpu' = GPUDelFields(gpu, shutdown_ok)
    /\ UNCHANGED gpu_call
    /\ UNCHANGED reader_vars
    /\ UNCHANGED coord_vars
    /\ UNCHANGED <<proc, http, model_call>>

NextGPU == GPUCollect \/ GPUDel

SpecGPU == Init /\ [][NextGPU]_vars

\* ------------------------------------------------------- actions: readers
\* A call of CPUCollector.collect; psutil's behaviour is its input.
CPUCollectorCollect ==
    /\ \E os \in OSCpuAnswers :
          /\ os_cpu' = os
          /\ cpu_call' = CPUCollect(os)
    /\ UNCHANGED <<os_mem, mem_call>>
    /\ UNCHANGED gpu_vars
    /\ UNCHANGED coord_vars
    /\ UNCHANGED <<proc, http, model_call>>

\* A call of MemoryCollector.collect.
MemoryCollectorCollect ==
    /\ \E os \in OSMemAnswers :
          /\ os_mem' = os
          /\ mem_call' = MemoryCollect(os)
    /\ UNCHANGED <<os_cpu, cpu_call>>
    /\ UNCHANGED gpu_vars
    /\ UNCHANGED coord_vars
    /\ UNCHANGED <<proc, http, model_call>>

NextReaders == CPUCollectorCollect \/ MemoryCollectorCollect

SpecReaders == Init /\ [][NextReaders]_vars


\* ---------------------------------------------- actions: MetricsCollector
\* An export call ends by raising e: the locals are gone, the error is the
\* call's outcome.
TaskFailed(tk, e) ==
    [tk EXCEPT !.pc = "failed", !.cpu_data = NoData, !.memory_data = NoData,
               !.result = Raised(e)]

\* A caller starts get_latest_metrics ("prometheus") or collect_metrics
\* ("json"); either begins with collect_metrics, which runs up to its first
\* await (line 192).
TaskStart(t) ==
    /\ task[t].pc \in {"idle", "done", "failed"}
    /\ \E op \in {"prometheus", "json"} :
          task' = [task EXCEPT ![t] =
                      [IdleTask EXCEPT !.pc = "await_cpu", !.op = op,
                                       !.trace = <<"collect_metrics">>]]
    /\ UNCHANGED <<registry, last_update, last_render>>
    /\ UNCHANGED gpu_vars
    /\ UNCHANGED reader_vars
    /\ UNCHANGED <<proc, http, model_call>>

\* Variant of the CPU await that goes on to the memory reader with an empty
\* reading when the CPU reader raises.
TaskAwaitCPU_Fallback(t) ==
    /\ task[t].pc = "await_cpu"
    /\ \E os \in ExportCpuAnswers :
          LET r == CPUCollect(os)
          IN task' = [task EXCEPT ![t] =
                IF r.status = "raised"
                THEN [@ EXCEPT !.pc = "await_memory", !.cpu_data = NoData,
                               !.trace = Append(@, "cpu")]
                ELSE [@ EXCEPT !.pc = "await_memory", !.cpu_data = r.data,
                               !.trace = Append(@, "cpu")]]
    /\ UNCHANGED <<registry, last_update, last_render>>
    /\ UNCHANGED gpu_vars
    /\ UNCHANGED reader_vars
    /\ UNCHANGED <<proc, http, model_call>>

\* await self.cpu_collector.collect(), line 192.
TaskAwaitCPU(t) ==
    /\ task[t].pc = "await_cpu"
    /\ \E os \in ExportCpuAnswers :
          LET r == CPUCollect(os)
          IN task' = [task EXCEPT ![t] =
                IF r.status = "raised"
                THEN TaskFailed(@, r.data.error)
                ELSE [@ EXCEPT !.pc = "await_memory", !.cpu_data = r.data,
                               !.trace = Append(@, "cpu")]]
    /\ UNCHANGED <<registry, last_update, last_render>>
    /\ UNCHANGED gpu_vars
    /\ UNCHANGED reader_vars
    /\ UNCHANGED <<proc, http, model_call>>

\* Variant of the memory await that publishes the reading to its gauge as
\* soon as it is read.
TaskAwaitMemory_SetsGauge(t) ==
    /\ task[t].pc = "await_memory"
    /\ \E os \in ExportMemAnswers :
          LET r == MemoryCollect(os)
          IN /\ task' = [task EXCEPT ![t] =
                   IF r.status = "raised"
                   THEN TaskFailed(@, r.data.error)
                   ELSE [@ EXCEPT !.pc = "await_gpu", !.memory_data = r.data,
                                  !.trace = Append(@, "memory")]]
             /\ registry' =
                   IF r.status = "raised" THEN registry
                   ELSE [registry EXCEPT !["memory_virtual_total_bytes"] =
                            GaugeSet(@, <<>>, r.data.total)]
    /\ UNCHANGED <<last_update, last_render>>
    /\ UNCHANGED gpu_vars
    /\ UNCHANGED reader_vars
    /\ UNCHANGED <<proc, http, model_call>>

\* await self.memory_collector.collect(), line 193.
TaskAwaitMemory(t) ==
    /\ task[t].pc = "await_memory"
    /\ \E os \in ExportMemAnswers :
          LET r == MemoryCollect(os)
          IN task' = [task EXCEPT ![t] =
                IF r.status = "raised"
                THEN TaskFailed(@, r.data.error)
                ELSE [@ EXCEPT !.pc = "await_gpu", !.memory_data = r.data,
                               !.trace = Append(@, "memory")]]
    /\ UNCHANGED <<registry, last_update, last_render>>
    /\ UNCHANGED gpu_vars
    /\ UNCHANGED reader_vars
    /\ UNCHANGED <<proc, http, model_call>>

\* The rest of the call, which has no further await: line 194 calls
\* self.gpu_collector.collect(), lines 197-201 construct the snapshot, and
\* get_latest_metrics goes on to update the registry and render it
\* (lines 285-286).  The outcome of the whole rest, for task record tk on
\* registry reg: the task record and the registry it leaves.
ExportFinish(tk, reg, g) ==
    LET call == GPUCollectorCall("collect", g)
        snap == IF call.status = "raised" THEN call
                ELSE SystemMetricsConstruct(tk.cpu_data, tk.memory_data,
                                            call.data)
    IN IF snap.status = "raised"
       THEN [task |-> TaskFailed(tk, snap.data.error), registry |-> reg,
             updated |-> FALSE]
       ELSE IF tk.op = "json"
            THEN [task |-> [tk EXCEPT !.pc = "done",
                                      !.trace = Append(@, "gpu"),
                                      !.result = snap],
                  registry |-> reg, updated |-> FALSE]
            ELSE LET reg2 == UpdatePrometheusMetrics(reg, snap.data)
                 IN [task |-> [tk EXCEPT
                                  !.pc = "done",
                                  !.trace = @ \o <<"gpu",
                                      "update_prometheus_metrics",
                                      "generate_latest">>,
                                  !.result = Returned(
                                      [text |-> GenerateLatest(reg2),
                                       metrics |-> snap.data])],
                     registry |-> reg2, updated |-> TRUE]

\* Variant of the rest of the call in which the GPU collector is constructed
\* for the request, which initializes the driver once more.
TaskAwaitGPU_Reinit(t) ==
    /\ task[t].pc = "await_gpu"
    /\ LET fin == ExportFinish(task[t], registry, gpu)
       IN /\ task' = [task EXCEPT ![t] = fin.task]
          /\ registry' = fin.registry
          /\ last_update' = IF fin.updated
                            THEN [called |-> TRUE,
                                  metrics |-> fin.task.result.data.metrics]
                            ELSE last_update
          /\ last_render' = IF fin.updated
                            THEN NoRender
                            ELSE last_render
    /\ nvml' = [nvml EXCEPT !.inits = IF nvml.lib /\ @ < 2 THEN @ + 1 ELSE @]
    /\ UNCHANGED <<gpu, gpu_call, dels>>
    /\ UNCHANGED reader_vars
    /\ UNCHANGED <<proc, http, model_call>>

TaskAwaitGPU(t) ==
    /\ task[t].pc = "await_gpu"
    /\ LET fin == ExportFinish(task[t], registry, gpu)
       IN /\ task' = [task EXCEPT ![t] = fin.task]
          /\ registry' = fin.registry
          /\ last_update' = IF fin.updated
                            THEN [called |-> TRUE,
                                  metrics |-> fin.task.result.data.metrics]
                            ELSE last_update
          /\ last_render' = IF fin.updated
                            THEN NoRender
                            ELSE last_render
    /\ UNCHANGED gpu_vars
    /\ UNCHANGED reader_vars
    /\ UNCHANGED <<proc, http, model_call>>

\* A caller hands a snapshot to update_prometheus_metrics.  last_render keeps
\* a rendering only while no registry write has followed it.
UpdateCall ==
    /\ proc.owner # 0
    /\ \E k \in 1..NumSnapshots :
          /\ registry' = UpdatePrometheusMetrics(registry, SnapshotOf(k))
          /\ last_update' = [called |-> TRUE, metrics |-> SnapshotOf(k)]
    /\ last_render' = NoRender
    /\ UNCHANGED task
    /\ UNCHANGED gpu_vars
    /\ UNCHANGED reader_vars
    /\ UNCHANGED <<proc, http, model_call>>

\* Variant of get_prometheus_metrics that resets every gauge it has shown.
RenderCall_Resets ==
    /\ proc.owner # 0
    /\ last_render' = [called |-> TRUE, text |-> GenerateLatest(registry),
                       prior |-> IF last_render.called
                                 THEN <<last_render.text>> ELSE <<>>]
    /\ registry' = RegisterMetrics
    /\ UNCHANGED <<task, last_update>>
    /\ UNCHANGED gpu_vars
    /\ UNCHANGED reader_vars
    /\ UNCHANGED <<proc, http, model_call>>

\* A caller calls get_prometheus_metrics: generate_latest() of the registry.
\* prior keeps what the render before this one returned, when no registry
\* write lies between the two.
RenderCall ==
    /\ proc.owner # 0
    /\ last_render' = [called |-> TRUE, text |-> GenerateLatest(registry),
                       prior |-> IF last_render.called
                                 THEN <<last_render.text>> ELSE <<>>]
    /\ UNCHANGED <<registry, task, last_update>>
    /\ UNCHANGED gpu_vars
    /\ UNCHANGED reader_vars
    /\ UNCHANGED <<proc, http, model_call>>

Next ==
    \/ \E t \in Tasks : TaskStart(t)
    \/ \E t \in Tasks : TaskAwaitCPU(t)
    \/ \E t \in Tasks : TaskAwaitMemory(t)
    \/ \E t \in Tasks : TaskAwaitGPU(t)
    \/ UpdateCall
    \/ RenderCall

Spec == Init /\ [][Next]_vars

\* ------------------------------------------------- actions: process start
\* import prod_health_guardian.metrics: metrics/__init__.py imports
\* metrics/prometheus.py, whose module-level Gauge(...) statements run.
ImportMetricsPackage ==
    /\ ~proc.imported
    /\ registry' = RegisterGauges(registry, PrometheusModuleMetrics).registry
    /\ proc' = [proc EXCEPT !.imported = TRUE]
    /\ UNCHANGED <<task, last_update, last_render, http, model_call>>
    /\ UNCHANGED gpu_vars
    /\ UNCHANGED reader_vars

\* The clear_registry fixture of the tests: every collector is unregistered.
ClearRegistry ==
    /\ proc.imported
    /\ DOMAIN registry # {}
    /\ registry' = EmptyRegistry
    /\ proc' = [proc EXCEPT !.owner = 0]
    /\ last_update' = [called |-> FALSE, metrics |-> NoData]
    /\ last_render' = NoRender
    /\ UNCHANGED <<task, http, model_call>>
    /\ UNCHANGED gpu_vars
    /\ UNCHANGED reader_vars

\* A caller constructs a MetricsCollector.
ConstructCall ==
    /\ proc.imported
    /\ proc.calls < MaxConstructions
    /\ LET c == Construct("MetricsCollector", proc, registry, nvml)
       IN /\ proc' = c.proc
          /\ registry' = c.registry
          /\ nvml' = c.nvml
          /\ gpu' = c.gpu
    /\ UNCHANGED <<gpu_call, dels>>
    /\ UNCHANGED <<task, last_update, last_render, http, model_call>>
    /\ UNCHANGED reader_vars

\* A caller calls get_collector().
GetCollectorCall ==
    /\ proc.imported
    /\ proc.gets < MaxGetCalls
    /\ proc.singleton # 0 \/ proc.calls < MaxConstructions
    /\ LET c == GetCollector(proc, registry, nvml, gpu)
       IN /\ proc' = c.proc
          /\ registry' = c.registry
          /\ nvml' = c.nvml
          /\ gpu' = c.gpu
    /\ UNCHANGED <<gpu_call, dels>>
    /\ UNCHANGED <<task, last_update, last_render, http, model_call>>
    /\ UNCHANGED reader_vars

NextStartup ==
    \/ ImportMetricsPackage
    \/ ClearRegistry
    \/ ConstructCall
    \/ GetCollectorCall
    \/ UpdateCall
    \/ RenderCall

SpecStartup == InitStartup /\ [][NextStartup]_vars

\* ---------------------------------------------------------- api/main.py
\* str(e) of the exceptions the handlers can catch.
ErrorMessage(e) ==
    CASE e = "psutil" -> "psutil error"
      [] e = "AttributeError" ->
            "'GPUCollector' object has no attribute 'collect'"
      [] e = "TypeError" -> "object bytes can't be used in 'await' expression"
      [] e = "ValidationError" -> "validation error"
      [] OTHER -> e

\* __version__, imported at line 8.
Version == "0.1.0"

\* The required fields of HealthStatus (models/api.py): status, version and
\* system are Field(...); the model has no other field.
HealthStatusFields == {"status", "version", "system"}

\* A response: its route, its status code, its body, and the exception the
\* handler's try body raised ("none" when it raised nothing).
Response(route, code, body, raised) ==
    [route |-> route, status_code |-> code, body |-> body, raised |-> raised]

\* raise HTTPException(status_code, detail), as the exception handler of the
\* framework answers it.
HTTPException(route, code, detail, raised) ==
    Response(route, code, [detail |-> detail], raised)

\* An exception that leaves the handler: the framework answers 500.
InternalServerError(route, raised) ==
    Response(route, 500, [text |-> "Internal Server Error"], raised)

\* health_check, lines 64-87, with psutil answering cpu_os and mem_os.  The
\* readings it leaves are the calls of the two collectors it made.
HealthCheck(cpu_os, mem_os) ==
    LET c == CPUCollect(cpu_os)
        m == IF c.status = "raised" THEN NotCalled ELSE MemoryCollect(mem_os)
        raised == IF c.status = "raised" THEN c.data.error
                  ELSE IF m.status = "raised" THEN m.data.error
                  ELSE "none"
        model == IF raised = "none"
                 THEN ModelConstruct(HealthStatusFields,
                         [status |-> "healthy", version |-> Version,
                          system |-> [api |-> "running",
                                      collectors |-> "ready"]])
                 ELSE ModelConstruct(HealthStatusFields,
                         [status |-> "unhealthy",
                          error |-> ErrorMessage(raised)])
    IN [cpu_call |-> c, mem_call |-> m,
        response |-> IF model.status = "raised"
                     THEN InternalServerError("/health", raised)
                     ELSE Response("/health", 200, model.data, raised)]

\* get_latest_metrics of metrics/prometheus.py, lines 173-179: a plain
\* function that returns the rendering; its result is no awaitable.
PrometheusGetLatestMetrics(reg) ==
    [awaitable |-> FALSE, value |-> GenerateLatest(reg)]

\* await x: a value that is no awaitable raises TypeError.
Await(x) ==
    IF x.awaitable THEN Returned(x.value) ELSE Raised("TypeError")

\* get_metrics, lines 102-125.
GetMetrics(reg) ==
    LET r == Await(PrometheusGetLatestMetrics(reg))
    IN IF r.status = "raised"
       THEN HTTPException("/metrics", 500,
                "Failed to generate Prometheus metrics: "
                    \o ErrorMessage(r.data.error),
                r.data.error)
       ELSE Response("/metrics", 200, [content |-> r.data], "none")

\* metrics_collector.collect_metrics() run to its end with psutil answering
\* cpu_os and mem_os: the two awaits, then the rest of the call.
CollectMetrics(cpu_os, mem_os, reg, g) ==
    LET c == CPUCollect(cpu_os)
        m == IF c.status = "raised" THEN NotCalled ELSE MemoryCollect(mem_os)
    IN IF c.status = "raised" THEN c
       ELSE IF m.status = "raised" THEN m
       ELSE ExportFinish([IdleTask EXCEPT !.pc = "await_gpu", !.op = "json",
                                          !.cpu_data = c.data,
                                          !.memory_data = m.data],
                         reg, g).task.result

\* Variant of get_json_metrics that answers 200 with what was collected when
\* the collection raises.
GetJsonMetrics_Partial(cpu_os, mem_os, reg, g) ==
    LET r == CollectMetrics(cpu_os, mem_os, reg, g)
    IN IF r.status = "raised"
       THEN Response("/metrics/json", 200, [cpu |-> CPUCollect(cpu_os).data],
                     r.data.error)
       ELSE Response("/metrics/json", 200,
                     [cpu |-> r.data.cpu, memory |-> r.data.memory,
                      gpu |-> r.data.gpu], "none")

\* get_json_metrics, lines 137-160.
GetJsonMetrics(cpu_os, mem_os, reg, g) ==
    LET r == CollectMetrics(cpu_os, mem_os, reg, g)
    IN IF r.status = "raised"
       THEN HTTPException("/metrics/json", 500,
                "Failed to collect metrics: " \o ErrorMessage(r.data.error),
                r.data.error)
       ELSE Response("/metrics/json", 200,
                     [cpu |-> r.data.cpu, memory |-> r.data.memory,
                      gpu |-> r.data.gpu], "none")

\* The path parameters a client sends to /metrics/json/{collector}.
CollectorNames == {"cpu", "memory", "disk"}

\* get_collector_metrics, lines 176-210: the reading of the named collector
\* is validated through its model; an unknown name is a 404, which the
\* handler re-raises; any other exception is a 500.
GetCollectorMetrics(collector, cpu_os, mem_os) ==
    LET route == "/metrics/json/" \o collector
        data == IF collector = "cpu" THEN CPUCollect(cpu_os)
                ELSE MemoryCollect(mem_os)
        model == IF data.status = "raised" THEN data
                 ELSE IF collector = "cpu"
                      THEN ModelConstruct(CPUMetricsFields, data.data)
                      ELSE ModelConstruct(MemoryMetricsFields, data.data)
    IN IF collector \notin {"cpu", "memory"}
       THEN HTTPException(route, 404,
                "Collector '" \o collector \o "' not found", "HTTPException")
       ELSE IF model.status = "raised"
            THEN HTTPException(route, 500,
                     "Failed to collect metrics from " \o collector,
                     model.data.error)
            ELSE Response(route, 200,
                          [c \in {collector} |-> model.data], "none")

\* ------------------------------------------------------ actions: requests
\* GET /health.
HealthCheckRequest ==
    /\ \E cpu_os \in OSCpuAnswers, mem_os \in OSMemAnswers :
          LET h == HealthCheck(cpu_os, mem_os)
          IN /\ http' = h.response
             /\ os_cpu' = cpu_os
             /\ cpu_call' = h.cpu_call
             /\ os_mem' = IF h.mem_call = NotCalled THEN os_mem ELSE mem_os
             /\ mem_call' = IF h.mem_call = NotCalled THEN mem_call
                            ELSE h.mem_call
    /\ UNCHANGED gpu_vars
    /\ UNCHANGED coord_vars
    /\ UNCHANGED <<proc, model_call>>

\* GET /metrics.
GetMetricsRequest ==
    /\ http' = GetMetrics(registry)
    /\ UNCHANGED gpu_vars
    /\ UNCHANGED reader_vars
    /\ UNCHANGED coord_vars
    /\ UNCHANGED <<proc, model_call>>

\* GET /metrics/json.
GetJsonMetricsRequest ==
    /\ \E cpu_os \in OSCpuAnswers, mem_os \in OSMemAnswers :
          LET c == CPUCollect(cpu_os)
          IN /\ http' = GetJsonMetrics(cpu_os, mem_os, registry, gpu)
             /\ os_cpu' = cpu_os
             /\ cpu_call' = c
             /\ os_mem' = IF c.status = "raised" THEN os_mem ELSE mem_os
             /\ mem_call' = IF c.status = "raised" THEN mem_call
                            ELSE MemoryCollect(mem_os)
    /\ UNCHANGED gpu_vars
    /\ UNCHANGED coord_vars
    /\ UNCHANGED <<proc, model_call>>

\* GET /metrics/json/{collector}.
GetCollectorMetricsRequest ==
    /\ \E collector \in CollectorNames,
          cpu_os \in OSCpuAnswers, mem_os \in OSMemAnswers :
          /\ http' = GetCollectorMetrics(collector, cpu_os, mem_os)
          /\ os_cpu' = IF collector = "cpu" THEN cpu_os ELSE os_cpu
          /\ cpu_call' = IF collector = "cpu" THEN CPUCollect(cpu_os)
                         ELSE cpu_call
          /\ os_mem' = IF collector = "memory" THEN mem_os ELSE os_mem
          /\ mem_call' = IF collector = "memory" THEN MemoryCollect(mem_os)
                         ELSE mem_call
    /\ UNCHANGED gpu_vars
    /\ UNCHANGED coord_vars
    /\ UNCHANGED <<proc, model_call>>

NextAPI ==
    \/ HealthCheckRequest
    \/ GetMetricsRequest
    \/ GetJsonMetricsRequest
    \/ GetCollectorMetricsRequest

SpecAPI == Init /\ [][NextAPI]_vars

\* --------------------------------------------------- actions: the models
\* A caller constructs CPUMetrics, MemoryMetrics or GPUMetrics from a dict.
ModelConstructCall ==
    /\ \E c \in ([model : {"CPUMetrics"}, data : CPUMetricsInputs,
                  fields : {CPUMetricsFields}]
                 \cup [model : {"MemoryMetrics"}, data : MemoryMetricsInputs,
                       fields : {MemoryMetricsFields}]
                 \cup [model : {"GPUMetrics"}, data : GPUMetricsInputs,
                       fields : {GPUMetricsFields}]) :
          model_call' = [model |-> c.model, data |-> c.data,
                         result |-> ModelConstruct(c.fields, c.data)]
    /\ UNCHANGED gpu_vars
    /\ UNCHANGED reader_vars
    /\ UNCHANGED coord_vars
    /\ UNCHANGED <<proc, http>>

NextModels == ModelConstructCall

SpecModels == Init /\ [][NextModels]_vars

\* ================================================================== claims
\* ------------------------------------------------------------------- GPU
\* The driver initialization at construction failed: no library, or
\* nvmlInit raised, or nvmlDeviceGetCount raised.
GPUInitFailed == ~nvml.lib \/ ~nvml.init_ok \/ ~nvml.count_ok

\* C4: when driver initialization fails at construction the collector is
\* unavailable from then on: has_nvidia is false in every later state and
\* every collect_metrics call returns device_count 0 with no devices and
\* raises nothing.
C4_InitFailureIsPermanent ==
    GPUInitFailed =>
        /\ ~gpu.has_nvidia
        /\ gpu.device_count = 0
        /\ gpu_call.result.status \in {"none", "returned"}
        /\ gpu_call.result.device_count = 0
        /\ gpu_call.result.devices = <<>>

C4_Witness ==
    /\ nvml.lib /\ ~nvml.count_ok
    /\ gpu_call.result.status = "returned"
    /\ dels >= 1

\* C5: a collector whose nvmlInit and device count both succeeded calls
\* nvmlShutdown exactly once over any number (one or more) of teardowns, also
\* when that shutdown raises; a collector whose nvmlInit failed (or that has
\* no driver library) never calls it.
C5_ShutdownExactlyOnce ==
    /\ (nvml.lib /\ nvml.init_ok /\ nvml.count_ok /\ dels >= 1)
            => nvml.shutdowns = 1
    /\ (~nvml.lib \/ ~nvml.init_ok) => nvml.shutdowns = 0
    /\ dels = 0 => nvml.shutdowns = 0

C5_Witness ==
    /\ nvml.lib /\ nvml.init_ok /\ nvml.count_ok
    /\ dels = MaxTeardowns
    /\ nvml.shutdown_errors = 1
    /\ nvml.shutdowns = 1

\* Positions of the reported devices list that describe driver device i.
PositionsOf(r, i) ==
    {k \in 1..Len(r.devices) :
        r.devices[k].temperature = DriverTemperature(i)}

\* C6: on an available collector with N devices, collect_metrics never
\* raises, reports device_count N, omits exactly the devices one of whose
\* handle/name/temperature/power/memory/utilization reads raised, and lists
\* the others once each in ascending index order.
C6_FailedDeviceOmittedOnly ==
    LET r == gpu_call.result
        n == gpu_call.self.device_count
    IN (gpu_call.self.has_nvidia /\ r.status # "none") =>
        /\ r.status = "returned"
        /\ r.device_count = n
        /\ n = nvml.ndev
        /\ \A i \in 0..(n - 1) :
              /\ gpu_call.faults[i] # "none" => PositionsOf(r, i) = {}
              /\ gpu_call.faults[i] = "none" =>
                    /\ Cardinality(PositionsOf(r, i)) = 1
                    /\ \A k \in PositionsOf(r, i) :
                          /\ r.devices[k].name = DriverName(i)
                          /\ r.devices[k].memory_total = DriverMemoryTotal(i)
                          /\ r.devices[k].utilization = DriverUtilizationGpu(i)
        /\ \A k \in 1..Len(r.devices) :
              \E i \in 0..(n - 1) : k \in PositionsOf(r, i)
        /\ \A k1, k2 \in 1..Len(r.devices) :
              k1 < k2 => r.devices[k1].temperature < r.devices[k2].temperature

\* Device 0 failed a read, device 1 is reported, fewer records than N.
C6_Witness ==
    /\ gpu_call.self.has_nvidia
    /\ gpu_call.self.device_count = 2
    /\ gpu_call.result.status = "returned"
    /\ gpu_call.faults[0] = "power"
    /\ gpu_call.faults[1] = "none"
    /\ Len(gpu_call.result.devices) = 1
    /\ gpu_call.result.device_count = 2

\* ---------------------------------------------------------------- readers
\* C3: when the swap probe raises, MemoryCollector.collect still returns;
\* the six swap fields are zero and the five virtual-memory fields are the
\* values virtual_memory() gave.
C3_SwapFailureYieldsZeros ==
    (mem_call.status # "none" /\ os_mem.virtual_ok /\ ~os_mem.swap_ok) =>
        /\ mem_call.status = "returned"
        /\ mem_call.data.swap_total = 0
        /\ mem_call.data.swap_used = 0
        /\ mem_call.data.swap_free = 0
        /\ mem_call.data.swap_percent = 0
        /\ mem_call.data.swap_in = 0
        /\ mem_call.data.swap_out = 0
        /\ mem_call.data.total = OSVirtualMemory(os_mem.k).total
        /\ mem_call.data.available = OSVirtualMemory(os_mem.k).available
        /\ mem_call.data.used = OSVirtualMemory(os_mem.k).used
        /\ mem_call.data.free = OSVirtualMemory(os_mem.k).free
        /\ mem_call.data.percent = OSVirtualMemory(os_mem.k).percent

C3_Witness ==
    /\ mem_call.status = "returned"
    /\ os_mem.virtual_ok /\ ~os_mem.swap_ok
    /\ os_mem.k = 2
    /\ mem_call.data.total = 2001

\* ------------------------------------------------------- MetricsCollector
\* An export call t has ended although both readers it awaited returned a
\* reading (no reader raised a hard failure).
EndedWithReadings(t) ==
    /\ task[t].pc \in {"done", "failed"}
    /\ Len(task[t].trace) >= 3
    /\ task[t].trace[2] = "cpu" /\ task[t].trace[3] = "memory"

\* C1: a get_latest_metrics call (whose readers return) performs
\* collect_metrics, then update_prometheus_metrics, then the render, once
\* each and in this order, and returns that render's text.
C1_ExportCollectsUpdatesRenders ==
    \A t \in Tasks :
        (task[t].op = "prometheus" /\ EndedWithReadings(t)) =>
            /\ task[t].pc = "done"
            /\ task[t].trace = <<"collect_metrics", "cpu", "memory", "gpu",
                                 "update_prometheus_metrics",
                                 "generate_latest">>

\* C7: collect_metrics returns a snapshot whenever the readers return their
\* readings: a call fails only with the hard failure a reader raised.
C7_CollectFailsOnlyOnReaderFailure ==
    \A t \in Tasks :
        task[t].pc = "failed" => task[t].result.data.error = "psutil"

\* A step of a JSON export (collect_metrics called for GET /metrics/json).
JsonExportStep(t) == task'[t] # task[t] /\ task'[t].op = "json"

\* C8: no step of a JSON export, successful or failed, changes the registry:
\* every sample and every label combination stays as it was.
C8_JsonExportLeavesRegistry ==
    [][\A t \in Tasks : JsonExportStep(t) => registry' = registry]_vars

\* A JSON export has run to its end on a registry that holds a snapshot.
C8_Witness ==
    /\ last_update.called
    /\ registry # RegisterMetrics
    /\ \E t \in Tasks :
          /\ task[t].op = "json"
          /\ EndedWithReadings(t)

\* The unlabeled CPU and memory gauges with the snapshot field each shows.
C9_PlainFields(m) ==
    { <<"cpu_physical_count", m.cpu.physical_cores>>,
      <<"cpu_logical_count", m.cpu.logical_cores>>,
      <<"cpu_frequency_current_mhz", m.cpu.cpu_freq_current>>,
      <<"cpu_frequency_min_mhz", m.cpu.cpu_freq_min>>,
      <<"cpu_frequency_max_mhz", m.cpu.cpu_freq_max>>,
      <<"cpu_percent_total", m.cpu.cpu_percent>>,
      <<"cpu_ctx_switches_total", m.cpu.ctx_switches>>,
      <<"cpu_interrupts_total", m.cpu.interrupts>>,
      <<"cpu_soft_interrupts_total", m.cpu.soft_interrupts>>,
      <<"cpu_syscalls_total", m.cpu.syscalls>>,
      <<"memory_virtual_total_bytes", m.memory.total>>,
      <<"memory_virtual_available_bytes", m.memory.available>>,
      <<"memory_virtual_used_bytes", m.memory.used>>,
      <<"memory_virtual_free_bytes", m.memory.free>>,
      <<"memory_virtual_percent", m.memory.percent>>,
      <<"memory_swap_total_bytes", m.memory.swap_total>>,
      <<"memory_swap_used_bytes", m.memory.swap_used>>,
      <<"memory_swap_free_bytes", m.memory.swap_free>>,
      <<"memory_swap_percent", m.memory.swap_percent>>,
      <<"memory_swap_sin_total", m.memory.swap_in>>,
      <<"memory_swap_sout_total", m.memory.swap_out>> }

C9_CoreLabel == <<"0", "1", "2", "3">>

\* C9: once update_prometheus_metrics has been called, every unlabeled CPU
\* and memory gauge holds its field of the most recent snapshot, and for
\* every index i of that snapshot's per-core list exactly one sample
\* cpu_percent_per_cpu{core=str(i)} exists and holds per_cpu[i].
C9_UpdateWritesCpuAndMemory ==
    last_update.called =>
        LET m == last_update.metrics
        IN /\ \A p \in C9_PlainFields(m) :
                 registry[p[1]] = << [labels |-> <<>>, value |-> p[2]] >>
           /\ \A i \in 1..Len(m.cpu.per_cpu_percent) :
                 Cardinality(
                    {j \in 1..Len(registry["cpu_percent_per_cpu"]) :
                        registry["cpu_percent_per_cpu"][j] =
                            [labels |-> <<C9_CoreLabel[i]>>,
                             value |-> m.cpu.per_cpu_percent[i]]}) = 1
           /\ \A i \in 1..Len(m.cpu.per_cpu_percent) :
                 Cardinality(
                    {j \in 1..Len(registry["cpu_percent_per_cpu"]) :
                        registry["cpu_percent_per_cpu"][j].labels =
                            <<C9_CoreLabel[i]>>}) = 1

\* A second update has overwritten the values of a first, different one.
C9_Witness ==
    /\ last_update.called
    /\ last_update.metrics = SnapshotOf(2)
    /\ Len(registry["cpu_percent_per_cpu"]) = 2
    /\ registry["cpu_physical_count"][1].value = 201

\* The number of GPU devices a SystemMetrics value describes: its gpu field
\* is one GPUMetrics record (update_prometheus_metrics: "we currently only
\* support one GPU"), none when the record is the empty aggregate.
SnapshotGpuDeviceCount(m) == IF m.gpu.name = "" THEN 0 ELSE 1

\* C10: after update_prometheus_metrics(s) the gpu_device_count gauge holds
\* the GPU device count of s, and a render shows it.
C10_UpdateWritesGpuDeviceCount ==
    last_update.called =>
        /\ registry["gpu_device_count"] =
              << [labels |-> <<>>,
                  value |-> SnapshotGpuDeviceCount(last_update.metrics)] >>
        /\ \E j \in 1..Len(GenerateLatest(registry)) :
              GenerateLatest(registry)[j] =
                  [kind |-> "sample", name |-> "gpu_device_count",
                   labels |-> <<>>,
                   value |-> SnapshotGpuDeviceCount(last_update.metrics)]

\* The eight labeled GPU families.
C11_GpuFamilies ==
    {"gpu_temperature_celsius", "gpu_power_watts", "gpu_memory_total_bytes",
     "gpu_memory_used_bytes", "gpu_memory_free_bytes",
     "gpu_utilization_percent", "gpu_memory_utilization_percent",
     "gpu_fan_speed_percent"}

C11_DeviceLabel == <<"0", "1", "2", "3">>

\* C11: after update_prometheus_metrics on a machine whose GPU reader counts
\* k devices, each of the eight GPU families has, for every device position
\* d in 0..k-1, a sample labeled gpu_id=str(d).
C11_UpdateWritesEveryDevice ==
    last_update.called =>
        \A d \in 0..(gpu.device_count - 1) :
            \A n \in C11_GpuFamilies :
                \E j \in 1..Len(registry[n]) :
                    registry[n][j].labels[1] = C11_DeviceLabel[d + 1]

\* The label combinations that snapshot m has for gauge n.
C12_LabelCombos(m, n) ==
    IF n = "cpu_percent_per_cpu"
    THEN {<<C9_CoreLabel[i]>> : i \in 1..Len(m.cpu.per_cpu_percent)}
    ELSE IF n \in C11_GpuFamilies THEN {<<"0", m.gpu.name>>}
    ELSE {<<>>}

\* Every sample of the registry has exactly one line in the rendering.
C12_RenderShowsEverySample ==
    last_render.called =>
        \A n \in DOMAIN registry : \A j \in 1..Len(registry[n]) :
            Cardinality({l \in 1..Len(last_render.text) :
                last_render.text[l] =
                    [kind |-> "sample", name |-> n,
                     labels |-> registry[n][j].labels,
                     value |-> registry[n][j].value]}) = 1

\* In one step every sample stays where it is with its labels, and a sample
\* whose label combination the latest snapshot does not have keeps its value.
C12_SamplesStay ==
    \A n \in DOMAIN registry : \A j \in 1..Len(registry[n]) :
        /\ j <= Len(registry'[n])
        /\ registry'[n][j].labels = registry[n][j].labels
        /\ (~last_update'.called
              \/ registry[n][j].labels
                    \notin C12_LabelCombos(last_update'.metrics, n))
           => registry'[n][j].value = registry[n][j].value

\* C12: label combinations are never removed: over any sequence of updates
\* the samples of every metric only grow, a sample that an update does not
\* overwrite keeps the value of the earlier cycle, and every sample appears
\* in every later render.
C12_LabelsNeverRemoved ==
    [](C12_RenderShowsEverySample) /\ [][C12_SamplesStay]_vars

\* Cycle N wrote two cores and GPU-A, cycle N+1 one core and GPU-B; the
\* samples of core "1" and of GPU-A keep the values of cycle N and a render
\* made afterwards shows them.
C12_Witness ==
    /\ last_update.called
    /\ last_update.metrics = SnapshotOf(2)
    /\ registry["cpu_percent_per_cpu"] =
          << [labels |-> <<"0">>, value |-> 251],
             [labels |-> <<"1">>, value |-> 152] >>
    /\ registry["gpu_temperature_celsius"] =
          << [labels |-> <<"0", "GPU-A">>, value |-> 141],
             [labels |-> <<"0", "GPU-B">>, value |-> 241] >>
    /\ last_render.called
    /\ \E l \in 1..Len(last_render.text) :
          last_render.text[l] =
              [kind |-> "sample", name |-> "cpu_percent_per_cpu",
               labels |-> <<"1">>, value |-> 152]

\* The 31 metric names of the exposition contract.
C13_ContractNames ==
    {"cpu_physical_count", "cpu_logical_count", "cpu_frequency_current_mhz",
     "cpu_frequency_min_mhz", "cpu_frequency_max_mhz", "cpu_percent_total",
     "cpu_percent_per_cpu", "cpu_ctx_switches_total", "cpu_interrupts_total",
     "cpu_soft_interrupts_total", "cpu_syscalls_total",
     "memory_virtual_total_bytes", "memory_virtual_available_bytes",
     "memory_virtual_used_bytes", "memory_virtual_free_bytes",
     "memory_virtual_percent", "memory_swap_total_bytes",
     "memory_swap_used_bytes", "memory_swap_free_bytes",
     "memory_swap_percent", "memory_swap_sin_total",
     "memory_swap_sout_total", "gpu_device_count"} \cup C11_GpuFamilies

\* The lines of text t that are of this kind, for this metric and labels.
C13_Lines(t, kind, n, labels) ==
    {l \in 1..Len(t) :
        t[l].kind = kind /\ t[l].name = n /\ t[l].labels = labels}

\* C13: a render made after update(s) contains the HELP line and the TYPE
\* line of every registered metric exactly once each, and exactly one sample
\* line for each (metric, label combination) pair of snapshot s.
C13_RenderAfterUpdateIsComplete ==
    (last_update.called /\ last_render.called) =>
        \A n \in C13_ContractNames :
            /\ Cardinality(C13_Lines(last_render.text, "HELP", n, <<>>)) = 1
            /\ Cardinality(C13_Lines(last_render.text, "TYPE", n, <<>>)) = 1
            /\ \A c \in C12_LabelCombos(last_update.metrics, n) :
                  Cardinality(C13_Lines(last_render.text, "sample", n, c)) = 1

\* A render after an update with a two-core snapshot.
C13_Witness ==
    /\ last_update.called /\ last_render.called
    /\ Len(last_update.metrics.cpu.per_cpu_percent) = 2
    /\ Cardinality(C13_Lines(last_render.text, "sample",
                             "cpu_percent_per_cpu", <<"1">>)) = 1

\* A step that is a get_prometheus_metrics call.
C14_RenderStep == last_render'.called /\ last_render' # last_render

C15_ConstructStep == proc'.calls = proc.calls + 1

\* Some name of the contract is already declared on the registry.
C15_AlreadyDeclared ==
    \E j \in 1..Len(RegisteredMetrics) :
        RegisteredMetrics[j].name \in DOMAIN registry

\* C15: constructing a coordinator on a registry that already declares one of
\* its names fails with the duplicate-declaration error, and every gauge the
\* registry held keeps its name, its labels and its values.
C15_DuplicateDeclarationFails ==
    [][(C15_ConstructStep /\ C15_AlreadyDeclared) =>
          /\ proc'.last.status = "raised"
          /\ proc'.made = proc.made
          /\ proc'.owner = proc.owner
          /\ DOMAIN registry' = DOMAIN registry
          /\ \A n \in DOMAIN registry : registry'[n] = registry[n]]_vars

\* A second coordinator was refused while the first one's gauges, written by
\* an update, are still on the registry.
C15_Witness ==
    /\ proc.last = Outcome("MetricsCollector", "raised", 0)
    /\ proc.owner = 1
    /\ proc.made = 1
    /\ last_update.called
    /\ last_update.metrics = SnapshotOf(2)
    /\ registry["cpu_percent_per_cpu"] =
           << [labels |-> <<"0">>, value |-> 251],
              [labels |-> <<"1">>, value |-> 152] >>

\* ------------------------------------------------------------------- C16
\* A step in which a MetricsCollector is constructed.
C16_Constructed == proc'.made = proc.made + 1

\* A step of update_prometheus_metrics or get_prometheus_metrics.
C16_ExportStep ==
    \/ last_update'.called /\ last_update' # last_update
    \/ C14_RenderStep

\* The label names each family of the registry is declared with.
C16_Schema(reg) ==
    \A j \in 1..Len(RegisteredMetrics) :
        \A k \in 1..Len(reg[RegisteredMetrics[j].name]) :
            Len(reg[RegisteredMetrics[j].name][k].labels) =
                Len(RegisteredMetrics[j].labelnames)

C17_GetCollectorReturnsSameInstance ==
    /\ Cardinality(proc.got) <= 1
    /\ proc.via_get <= 1
    /\ proc.got # {} => proc.got = {proc.singleton}
    /\ (proc.last.op = "get_collector" /\ proc.last.status = "returned") =>
           proc.last.value = proc.singleton

\* Two calls of get_collector have returned.
C17_Witness ==
    /\ proc.gets = 2
    /\ proc.via_get = 1
    /\ proc.got = {proc.singleton}
    /\ proc.singleton # 0
    /\ proc.last = Outcome("get_collector", "returned", proc.singleton)


C19_HealthNeverNon200 ==
    http.route = "/health" =>
        /\ http.status_code = 200
        /\ http.raised # "none" =>
              /\ "error" \in DOMAIN http.body
              /\ http.body.status = "unhealthy"
              /\ http.body.error = ErrorMessage(http.raised)
        /\ http.raised = "none" =>
              /\ http.body.status = "healthy"
              /\ http.body.version = Version
              /\ http.body.system = [api |-> "running", collectors |-> "ready"]

\* ------------------------------------------------------------------- C20
\* The routes C20 is about.
C20_Routes ==
    {"/metrics", "/metrics/json", "/metrics/json/cpu", "/metrics/json/memory"}

\* The detail C20 gives for a route and the exception raised while serving.
C20_Detail(route, e) ==
    CASE route = "/metrics" ->
            "Failed to generate Prometheus metrics: " \o ErrorMessage(e)
      [] route = "/metrics/json" ->
            "Failed to collect metrics: " \o ErrorMessage(e)
      [] route = "/metrics/json/cpu" -> "Failed to collect metrics from cpu"
      [] route = "/metrics/json/memory" ->
            "Failed to collect metrics from memory"

\* C20: an exception raised while serving /metrics, /metrics/json or
\* /metrics/json/{cpu|memory} yields a 500 response with the route's detail,
\* never a 200; a 200 on these routes means nothing was raised.
C20_ExceptionsYield500 ==
    http.route \in C20_Routes =>
        /\ http.raised # "none" =>
              /\ http.status_code = 500
              /\ http.body = [detail |-> C20_Detail(http.route, http.raised)]
        /\ http.status_code = 200 => http.raised = "none"

\* The memory reader raised while /metrics/json was served.
C20_Witness ==
    /\ http.route = "/metrics/json"
    /\ http.raised = "psutil"
    /\ cpu_call.status = "returned"
    /\ mem_call = Raised("psutil")
    /\ http.status_code = 500


\* ------------------------------------------------------------------- C21
\* The text s contains the text sub.
C21_Contains(s, sub) ==
    \E i \in 1..(Len(s) - Len(sub) + 1) : SubSeq(s, i, i + Len(sub) - 1) = sub

\* C21: a request for a collector other than cpu and memory is answered 404,
\* and the detail names the requested collector and lists the valid names.
C21_UnknownCollectorIs404 ==
    \A c \in CollectorNames \ {"cpu", "memory"} :
        http.route = "/metrics/json/" \o c =>
            /\ http.status_code = 404
            /\ C21_Contains(http.body.detail, c)
            /\ C21_Contains(http.body.detail, "cpu")
            /\ C21_Contains(http.body.detail, "memory")


\* ------------------------------------------------------------------- C22
\* The bounds of C22 on the fields of a model.
C22_Percent(v) == 0 <= v /\ v <= 100

C22_InBounds(model, d) ==
    CASE model = "CPUMetrics" ->
            /\ d.logical_cores >= d.physical_cores
            /\ C22_Percent(d.cpu_percent)
            /\ \A i \in 1..Len(d.per_cpu_percent) :
                  C22_Percent(d.per_cpu_percent[i])
            /\ d.ctx_switches >= 0
      [] model = "MemoryMetrics" ->
            /\ d.total >= 0
            /\ C22_Percent(d.percent)
            /\ C22_Percent(d.swap_percent)
      [] model = "GPUMetrics" ->
            /\ d.memory_used >= 0
            /\ C22_Percent(d.gpu_utilization)
            /\ C22_Percent(d.memory_utilization)
            /\ C22_Percent(d.fan_speed)

\* C22: a model that was constructed satisfies the bounds: logical cores at
\* least the physical cores, every percent within 0..100, every count or
\* byte field non-negative; a reading outside them is rejected.
C22_OutOfRangeRejected ==
    model_call.result.status = "returned" =>
        C22_InBounds(model_call.model, model_call.result.data)


\* ------------------------------------------------------------------- C23
\* C23: when the OS gives no frequency information, CPUCollector.collect
\* returns; current, min and max frequency are None, and the core counts,
\* the usage percentages and the counters are what the OS answered.
C23_NoFrequencyYieldsNone ==
    (cpu_call.status # "none" /\ os_cpu.ok /\ ~os_cpu.has_freq) =>
        /\ cpu_call.status = "returned"
        /\ cpu_call.data.frequency =
               [current |-> None, min |-> None, max |-> None]
        /\ cpu_call.data.count =
               [physical |-> os_cpu.k, logical |-> 2 * os_cpu.k]
        /\ cpu_call.data.percent.total = 20 + os_cpu.k
        /\ cpu_call.data.percent.per_cpu = OSCpuPercentPerCpu(os_cpu.k)
        /\ cpu_call.data.stats = OSCpuStats(os_cpu.k)

\* A collect has returned while the OS gave no frequency information.
C23_Witness ==
    /\ cpu_call.status = "returned"
    /\ os_cpu.ok /\ ~os_cpu.has_freq
    /\ os_cpu.k = 2
    /\ cpu_call.data.frequency.current = None
    /\ cpu_call.data.stats.ctx_switches = 201


\* ------------------------------------------------------------------- C24
\* C24: when the fan read of a device raises while its other reads succeed,
\* the call raises nothing and the device is reported once, with fan_speed 0
\* and every other field as the driver gave it.
C24_FanFailureYieldsZero ==
    LET r == gpu_call.result
        n == gpu_call.self.device_count
    IN (gpu_call.self.has_nvidia /\ r.status # "none") =>
        /\ r.status = "returned"
        /\ \A i \in 0..(n - 1) :
              (gpu_call.faults[i] = "none" /\ gpu_call.fan_faults[i]) =>
                  /\ Cardinality(PositionsOf(r, i)) = 1
                  /\ \A k \in PositionsOf(r, i) :
                        r.devices[k] =
                            [name |-> DriverName(i),
                             temperature |-> DriverTemperature(i),
                             power_usage |-> DriverPowerMilliwatts(i) \div 1000,
                             memory_total |-> DriverMemoryTotal(i),
                             memory_used |-> DriverMemoryUsed(i),
                             memory_free |-> DriverMemoryFree(i),
                             utilization |-> DriverUtilizationGpu(i),
                             memory_utilization |-> DriverUtilizationMemory(i),
                             fan_speed |-> 0]

\* Of two devices the fan read of the first raised; both are reported.
C24_Witness ==
    /\ gpu_call.self.has_nvidia
    /\ gpu_call.self.device_count = 2
    /\ gpu_call.result.status = "returned"
    /\ gpu_call.faults = [i \in 0..1 |-> "none"]
    /\ gpu_call.fan_faults[0] /\ ~gpu_call.fan_faults[1]
    /\ Len(gpu_call.result.devices) = 2
    /\ gpu_call.result.devices[1].fan_speed = 0
    /\ gpu_call.result.devices[2].fan_speed = DriverFanSpeed(1)


\* ------------------------------------------------------------------- C25
\* C25: when only the power read of a device raises, the reading still
\* reports the device: power 0, and name, memory, utilization, memory
\* utilization and fan speed as the driver gave them.
C25_PowerFailureYieldsZero ==
    LET r == gpu_call.result
        n == gpu_call.self.device_count
    IN (gpu_call.self.has_nvidia /\ r.status # "none") =>
        \A i \in 0..(n - 1) :
            (gpu_call.faults[i] = "power" /\ ~gpu_call.fan_faults[i]) =>
                \E k \in 1..Len(r.devices) :
                    /\ r.devices[k].name = DriverName(i)
                    /\ r.devices[k].power_usage = 0
                    /\ r.devices[k].memory_total = DriverMemoryTotal(i)
                    /\ r.devices[k].memory_used = DriverMemoryUsed(i)
                    /\ r.devices[k].memory_free = DriverMemoryFree(i)
                    /\ r.devices[k].utilization = DriverUtilizationGpu(i)
                    /\ r.devices[k].memory_utilization =
                           DriverUtilizationMemory(i)
                    /\ r.devices[k].fan_speed = DriverFanSpeed(i)


\* ------------------------------------------------------------------- C26
\* C26: a collector whose nvmlInit succeeded calls nvmlShutdown exactly once
\* when it is torn down, also when the device-count query that followed the
\* initialization raised.
C26_InitReleasedAtTeardown ==
    (nvml.lib /\ nvml.init_ok /\ dels >= 1) => nvml.shutdowns = 1


\* ------------------------------------------------------------------- C27
\* The readings the CPU and memory readers can return to an export call.
C27_CpuReadings == {CPUCollect(a).data : a \in {b \in ExportCpuAnswers : b.ok}}
C27_MemoryReadings ==
    {MemoryCollect(a).data : a \in {b \in ExportMemAnswers : b.virtual_ok}}

\* The readers are called in the order CPU, memory, GPU, a call goes on to
\* the next reader only with the reading the previous one returned, and a
\* call that failed made no update and no render.
C27_SequentialOrder ==
    \A t \in Tasks :
        /\ task[t].pc = "await_cpu" => task[t].trace = <<"collect_metrics">>
        /\ task[t].pc = "await_memory" =>
              /\ task[t].trace = <<"collect_metrics", "cpu">>
              /\ task[t].cpu_data \in C27_CpuReadings
        /\ task[t].pc = "await_gpu" =>
              /\ task[t].trace = <<"collect_metrics", "cpu", "memory">>
              /\ task[t].cpu_data \in C27_CpuReadings
              /\ task[t].memory_data \in C27_MemoryReadings
        /\ task[t].pc = "failed" =>
              /\ task[t].result.status = "raised"
              /\ task[t].trace \in
                    {<<"collect_metrics">>, <<"collect_metrics", "cpu">>,
                     <<"collect_metrics", "cpu", "memory">>}

\* The step in which export call t ends by raising.
C27_FailStep(t) == task[t].pc # "failed" /\ task'[t].pc = "failed"

\* C27: collect_metrics calls the readers in the order CPU, memory, GPU and
\* stops at the first that raises; the error is the call's outcome, no later
\* reader, update or render runs, and every instrument keeps its value.
C27_FirstFailureStopsCollection ==
    /\ []C27_SequentialOrder
    /\ [][\A t \in Tasks : C27_FailStep(t) =>
              /\ task'[t].trace = task[t].trace
              /\ task'[t].result.status = "raised"
              /\ registry' = registry
              /\ last_update' = last_update
              /\ last_render' = last_render]_vars

\* A get_latest_metrics call ended at the memory reader's error, on a
\* registry that holds a snapshot and has been rendered.
C27_Witness ==
    /\ last_update.called
    /\ last_render.called
    /\ registry # RegisterMetrics
    /\ \E t \in Tasks :
          /\ task[t].op = "prometheus"
          /\ task[t].pc = "failed"
          /\ task[t].trace = <<"collect_metrics", "cpu">>
          /\ task[t].result = Raised("psutil")


\* ------------------------------------------------------------------- C28
\* C28: the record at position k of the returned devices list (counted from
\* 0) describes the device with driver index k, also when the read of a
\* device of lower index failed in the same collection.
C28_PositionIsDeviceIndex ==
    LET r == gpu_call.result
    IN (gpu_call.self.has_nvidia /\ r.status = "returned") =>
        \A k \in 1..Len(r.devices) : PositionsOf(r, k - 1) = {k}


\* ------------------------------------------------------------------- C30
\* C30: once a collector has been torn down it stays released: has_nvidia is
\* false, every later collect_metrics call returns device_count 0 and no
\* devices whatever the driver would answer, and neither such a call nor a
\* later teardown initializes or shuts down the driver.
C30_NoDriverCallAfterRelease ==
    /\ [](dels >= 1 => ~gpu.has_nvidia)
    /\ [][dels >= 1 =>
            /\ gpu_call' # gpu_call =>
                  /\ gpu_call'.result =
                         [status |-> "returned", device_count |-> 0,
                          devices |-> <<>>]
                  /\ nvml' = nvml
            /\ dels' # dels =>
                  /\ nvml' = nvml
                  /\ gpu' = gpu]_vars

\* A collector with two devices was torn down twice, the driver was shut
\* down once, and a collection made after the teardown has returned.
C30_Witness ==
    /\ dels = 2
    /\ nvml.shutdowns = 1
    /\ nvml.ndev = 2
    /\ ~gpu_call.self.has_nvidia
    /\ gpu_call.self.device_count = 2
    /\ gpu_call.faults = [i \in 0..1 |-> "none"]
    /\ gpu_call.result.status = "returned"
    /\ gpu_call.result.devices = <<>>

====
